---- MODULE Spec2Model ----
(***************************************************************************)
(* MG EV battery management system poll decoder                            *)
(* (vehicle_mgev/src/mg_poll_bms.cpp): IncomingBmsPoll dispatches one      *)
(* diagnostic response frame (pid, data, remain) to its handler, which     *)
(* writes metrics; SetBmsStatus is the charge state machine.               *)
(*                                                                         *)
(* Metric values are fixed-point integers, one unit per metric:            *)
(*   cell / pack cell voltage      1/2000 V   (raw / 2000 + 1 V)           *)
(*   cell / pack / coolant temp    1/2 degC   (raw * 0.5 - 40 degC)        *)
(*   bus, pack, charge voltage     1/100 V    (raw * 0.25 V)               *)
(*   battery / charge current      1/40 A     ((raw - 40000) * 0.25 / 10)  *)
(*   battery / charge power        1/4000000 kW  (-(V * A) / 1000)         *)
(*   raw SOC, SOH                  1/100 %                                 *)
(*   estimated range               1/100 km                                *)
(*   scaled SOC                    1/SocUnit %                             *)
(*   ideal range                   2/SocUnit km                            *)
(* The float roundings of the code are not modelled: every comparison the  *)
(* code makes (99.5, 97.0) is at least 0.04 % away from any value the      *)
(* scaling can produce.                                                    *)
(***************************************************************************)
EXTENDS Integers, Sequences, FiniteSets, TLC

\* ------------------------------------------------------------------ bounds
\* Frames dispatched in one run of the full decoder.
MaxFrames == 3
\* Frames dispatched in one run restricted to the block-stat PIDs.
MaxCellFrames == 4
\* Frames dispatched in one run restricted to the charge-related PIDs.
MaxChargeFrames == 5
\* Frames dispatched to each of two decoders run side by side.
MaxTwinFrames == 3
\* Frames dispatched in one run restricted to SOC and status frames, the SOC
\* frames drawn from the edges of the DoD windows and of the 16-bit range.
MaxSocFrames == 2
\* Block-stat frames are drawn for the block indices 0..MaxIndex.
MaxIndex == 1

\* ------------------------------------------------------- program constants
\* enum BmsStatus
ConnectedNotCharging1 == 0
Idle == 1
Running == 3
Charging == 6
CcsCharging == 7
AboutToSleep == 8
Connected == 10
StartingCharge == 12

\* The PIDs of the switch in IncomingBmsPoll, by name; cellStatPids[k + 1] is
\* the PID dispatched to ProcessBatteryStats(k, ...).
cellStatPids ==
    << "cell1StatPid", "cell2StatPid", "cell3StatPid", "cell4StatPid",
       "cell5StatPid", "cell6StatPid", "cell7StatPid", "cell8StatPid",
       "cell9StatPid" >>

\* A PID that is no case of the switch.
otherPid == "otherPid"

\* DoD windows of calculateSoc.
lowerlimitNew == 25
upperlimitNew == 940
lowerlimitOld == 60
upperlimitOld == 970

\* The scaled SOC is a fraction with denominator 915 or 910; it is held in
\* units of 1/SocUnit percent, SocUnit their least common multiple.
SocUnit ==
    ((upperlimitNew - lowerlimitNew) * (upperlimitOld - lowerlimitOld)) \div 5

\* ------------------------------------------------------------ input samples
\* uint8_t* data: the first three bytes (data[3] is never read).
BE16(value) == << value \div 256, value % 256, 0 >>

\* data[i], zero-based as in the source.
Byte(data, i) == data[i + 1]

\* The two bytes taken in the wrong order.
u16_swapped(hi, lo) == (lo * 256 + hi) % 65536

\* (hi << 8 | lo) stored in a uint16_t.
u16(hi, lo) == (hi * 256 + lo) % 65536

CellIndexes == 0 .. MaxIndex

\* Block-stat payloads: 2.5 V / 52 degC / -34 degC, 2.55 V, and the extremes.
CellData == { << 11, 184, 12 >>, << 12, 28, 11 >>, << 255, 255, 255 >> }

\* uint16_t remain: zero (last frame of the response) and nonzero.
RemainSamples == { 0, 4 }

\* Bus voltage: the bus-off sentinel 0xFFFE, 400 V and 0 V.
BusVoltageRaw == { 65534, 1600, 0 }
\* Pack voltage: 395 V and 410 V.
PackVoltageRaw == { 1580, 1640 }
\* Current: 0 A, -25 A (charging) and +10 A.
CurrentRaw == { 40000, 39000, 40400 }
\* SOC: below 97 %, between 97 % and 99.5 % under either window, above.
SocRaw == { 500, 920, 950, 970 }
\* SOC at and around the limits of both DoD windows, and at both ends of the
\* 16-bit range.
SocEdgeRaw ==
    { 0, 24, 25, 26, 59, 60, 61, 500, 939, 940, 941, 969, 970, 971, 65535 }
\* Status codes: listed ones of each branch and an unlisted one.
StatusSamples == { Idle, Charging, CcsCharging, StartingCharge, 255 }
CoolantRaw == { 130 }
SohRaw == { 9500 }
RangeRaw == { 2500 }

\* --------------------------------------------------------------- the state
VARIABLES
    StandardMetrics,     \* the metrics store: a record of the ms_v_* metrics
    m_bmsCache,          \* the byte carried from a min-frame to the max-frame
    m_bat_pack_voltage,  \* internal pack-voltage metric
    m_soc_raw,           \* internal raw-SOC metric
    updatedbmu,          \* MyConfig "xmg" "updatedbmu"
    last,                \* the frame dispatched last: [pid, data, remain]
    lastStatus,          \* data[0] of the BMS status frame dispatched last
    repeated,            \* whether that frame equals the one before it
    lastMin,             \* the block-stat frame with remain # 0 dispatched last
    budget,              \* frames still to dispatch in this run
    twin                 \* a second decoder, fed its own frames

vars ==
    << StandardMetrics, m_bmsCache, m_bat_pack_voltage, m_soc_raw,
       updatedbmu, last, lastStatus, repeated, lastMin, budget, twin >>

NoFrame == [ pid |-> "none", data |-> << 0, 0, 0 >>, remain |-> 0 ]
NoStatus == -1

\* ------------------------------------------------------- the metrics store
\* OvmsMetricVector::SetElemValue: the element at index becomes value.
SetElemValue(vec, index, value) ==
    [ i \in (DOMAIN vec) \cup { index } |->
        IF i = index THEN value ELSE vec[i] ]

\* OvmsMetricVector::AsVector: the values held.
AsVector(vec) == { vec[i] : i \in DOMAIN vec }

\* *std::min_element(v.begin(), v.end())
min_element(v) == CHOOSE x \in v : \A y \in v : x <= y

\* *std::max_element(v.begin(), v.end())
max_element(v) == CHOOSE x \in v : \A y \in v : x >= y

EmptyVector == [ i \in {} |-> 0 ]

\* Every metric undefined: AsFloat() is 0, AsBool() false, a string empty.
InitialMetrics ==
    [ ms_v_bat_cell_vmin |-> EmptyVector,
      ms_v_bat_cell_vmax |-> EmptyVector,
      ms_v_bat_cell_tmin |-> EmptyVector,
      ms_v_bat_cell_tmax |-> EmptyVector,
      ms_v_bat_pack_vmin |-> 0,
      ms_v_bat_pack_vmax |-> 0,
      ms_v_bat_pack_tmin |-> 0,
      ms_v_bat_pack_tmax |-> 0,
      ms_v_bat_voltage |-> 0,
      ms_v_bat_current |-> 0,
      ms_v_bat_power |-> 0,
      ms_v_bat_soc |-> 0,
      ms_v_bat_range_ideal |-> 0,
      ms_v_bat_temp |-> 0,
      ms_v_bat_soh |-> 0,
      ms_v_bat_range_est |-> 0,
      ms_v_charge_inprogress |-> FALSE,
      ms_v_charge_type |-> "",
      ms_v_charge_state |-> "",
      ms_v_charge_current |-> 0,
      ms_v_charge_power |-> 0,
      ms_v_charge_climit |-> 0,
      ms_v_charge_voltage |-> 0 ]

\* The decoder object and the store it writes, as one value.
InitialDecoder ==
    [ metrics |-> InitialMetrics,
      m_bmsCache |-> 0,
      m_bat_pack_voltage |-> 0,
      m_soc_raw |-> 0 ]

\* ------------------------------------------------------------ calculateSoc
\* The result clamped to 0 .. 100 %.
calculateSoc_clamped(value, cfg) ==
    LET lowerlimit == IF cfg THEN lowerlimitNew ELSE lowerlimitOld
        upperlimit == IF cfg THEN upperlimitNew ELSE upperlimitOld
        soc == (value - lowerlimit) * 100 * (SocUnit \div (upperlimit - lowerlimit))
    IN  IF soc < 0 THEN 0 ELSE IF soc > 100 * SocUnit THEN 100 * SocUnit ELSE soc

calculateSoc(value, cfg) ==
    LET lowerlimit == IF cfg THEN lowerlimitNew ELSE lowerlimitOld
        upperlimit == IF cfg THEN upperlimitNew ELSE upperlimitOld
    IN  (value - lowerlimit) * 100 * (SocUnit \div (upperlimit - lowerlimit))

\* ----------------------------------------------------- ProcessBatteryStats
\* (raw / 2000.0f) + 1.0f volts
CellVolts(raw) == raw + 2000

\* raw * 0.5f - 40.0f degrees
CellTemp(raw) == raw - 80

\* The first element taken for the least one.
PackMin_first(vec) == vec[CHOOSE i \in DOMAIN vec : \A j \in DOMAIN vec : i <= j]

\* The pack minimum written after a cell minimum: the least element.
PackMin(vec) == min_element(AsVector(vec))

\* The pack maximum written after a cell maximum: the greatest element.
PackMax(vec) == max_element(AsVector(vec))

\* The first byte of the frame kept in the cache.
MinFrame_cache0(d, index, data) ==
    LET M == d.metrics
        vmin == u16(Byte(data, 0), Byte(data, 1))
        cells == SetElemValue(M.ms_v_bat_cell_vmin, index, CellVolts(vmin))
    IN  [ d EXCEPT
            !.m_bmsCache = Byte(data, 0),
            !.metrics =
                [ M EXCEPT
                    !.ms_v_bat_cell_vmin = cells,
                    !.ms_v_bat_pack_vmin = PackMin(cells) ] ]

\* if (remain): the first frame of a block's response
MinFrame(d, index, data) ==
    LET M == d.metrics
        vmin == u16(Byte(data, 0), Byte(data, 1))
        cells == SetElemValue(M.ms_v_bat_cell_vmin, index, CellVolts(vmin))
    IN  [ d EXCEPT
            !.m_bmsCache = Byte(data, 2),
            !.metrics =
                [ M EXCEPT
                    !.ms_v_bat_cell_vmin = cells,
                    !.ms_v_bat_pack_vmin = PackMin(cells) ] ]

\* The cached byte cleared once it is consumed.
MaxFrame_consume(d, index, data) ==
    LET M == d.metrics
        vmax == u16(d.m_bmsCache, Byte(data, 0))
        cvmax == SetElemValue(M.ms_v_bat_cell_vmax, index, CellVolts(vmax))
        ctmin == SetElemValue(M.ms_v_bat_cell_tmin, index, CellTemp(Byte(data, 1)))
        ctmax == SetElemValue(M.ms_v_bat_cell_tmax, index, CellTemp(Byte(data, 2)))
    IN  [ d EXCEPT
            !.m_bmsCache = 0,
            !.metrics =
                [ M EXCEPT
                    !.ms_v_bat_cell_vmax = cvmax,
                    !.ms_v_bat_cell_tmin = ctmin,
                    !.ms_v_bat_cell_tmax = ctmax,
                    !.ms_v_bat_pack_vmax = PackMax(cvmax),
                    !.ms_v_bat_pack_tmin = PackMin(ctmin),
                    !.ms_v_bat_pack_tmax = PackMax(ctmax) ] ]

\* else: the second frame of a block's response
MaxFrame(d, index, data) ==
    LET M == d.metrics
        vmax == u16(d.m_bmsCache, Byte(data, 0))
        tmin == Byte(data, 1)
        tmax == Byte(data, 2)
        cvmax == SetElemValue(M.ms_v_bat_cell_vmax, index, CellVolts(vmax))
        ctmin == SetElemValue(M.ms_v_bat_cell_tmin, index, CellTemp(tmin))
        ctmax == SetElemValue(M.ms_v_bat_cell_tmax, index, CellTemp(tmax))
    IN  [ d EXCEPT
            !.metrics =
                [ M EXCEPT
                    !.ms_v_bat_cell_vmax = cvmax,
                    !.ms_v_bat_cell_tmin = ctmin,
                    !.ms_v_bat_cell_tmax = ctmax,
                    !.ms_v_bat_pack_vmax = PackMax(cvmax),
                    !.ms_v_bat_pack_tmin = PackMin(ctmin),
                    !.ms_v_bat_pack_tmax = PackMax(ctmax) ] ]

\* Every block's frame written to block 0.
ProcessBatteryStats_first(d, index, data, remain) ==
    IF remain # 0
    THEN MinFrame(d, 0, data)
    ELSE MaxFrame(d, 0, data)

ProcessBatteryStats(d, index, data, remain) ==
    IF remain # 0
    THEN MinFrame(d, index, data)
    ELSE MaxFrame(d, index, data)

\* ------------------------------------------------------------ SetBmsStatus
\* The charge state set along with the type.
StartCharge_state(M) ==
    [ M EXCEPT
        !.ms_v_charge_inprogress = TRUE,
        !.ms_v_charge_type = "type2",
        !.ms_v_charge_state = "charging" ]

\* case StartingCharge: case Charging:
StartCharge(M) ==
    [ M EXCEPT
        !.ms_v_charge_inprogress = TRUE,
        !.ms_v_charge_type = "type2" ]

\* The charge current taken with the sign of the battery current.
StartCcsCharge_sign(M) ==
    [ M EXCEPT
        !.ms_v_charge_inprogress = TRUE,
        !.ms_v_charge_type = "ccs",
        !.ms_v_charge_current = M.ms_v_bat_current,
        !.ms_v_charge_power = M.ms_v_bat_power,
        !.ms_v_charge_climit = 82,
        !.ms_v_charge_voltage = M.ms_v_bat_voltage ]

\* case CcsCharging:
StartCcsCharge(M) ==
    [ M EXCEPT
        !.ms_v_charge_inprogress = TRUE,
        !.ms_v_charge_type = "ccs",
        !.ms_v_charge_current = -M.ms_v_bat_current,
        !.ms_v_charge_power = M.ms_v_bat_power,
        !.ms_v_charge_climit = 82,
        !.ms_v_charge_voltage = M.ms_v_bat_voltage ]

\* The top-off threshold taken for the done threshold.
ChargeDone_topoff(soc) == 2 * soc >= 199 * SocUnit

\* ms_v_bat_soc->AsFloat() >= 97.0
ChargeDone(soc) == soc >= 97 * SocUnit

\* The end of charge recorded without asking whether a charge was in progress.
EndCharge_always(M) ==
    [ M EXCEPT
        !.ms_v_charge_type = "not charging",
        !.ms_v_charge_state =
            IF ChargeDone(M.ms_v_bat_soc) THEN "done" ELSE "stopped",
        !.ms_v_charge_inprogress = FALSE ]

\* In-progress cleared only on the "done" path.
EndCharge_keep(M) ==
    IF M.ms_v_charge_inprogress
    THEN
        [ M EXCEPT
            !.ms_v_charge_type = "not charging",
            !.ms_v_charge_state =
                IF ChargeDone(M.ms_v_bat_soc) THEN "done" ELSE "stopped",
            !.ms_v_charge_inprogress = ~ChargeDone(M.ms_v_bat_soc) ]
    ELSE M

\* default:
EndCharge(M) ==
    IF M.ms_v_charge_inprogress
    THEN
        [ M EXCEPT
            !.ms_v_charge_type = "not charging",
            !.ms_v_charge_state =
                IF ChargeDone(M.ms_v_bat_soc) THEN "done" ELSE "stopped",
            !.ms_v_charge_inprogress = FALSE ]
    ELSE M

SetBmsStatus(M, status) ==
    CASE status \in { StartingCharge, Charging } -> StartCharge(M)
      [] status = CcsCharging -> StartCcsCharge(M)
      [] OTHER -> EndCharge(M)

\* --------------------------------------------- the cases of IncomingBmsPoll
\* The bus-off sentinel scaled like any other reading.
BusVoltage_raw(d, value) ==
    [ d EXCEPT !.metrics.ms_v_bat_voltage = value * 25 ]

\* case batteryBusVoltagePid
BusVoltage(d, value) ==
    [ d EXCEPT
        !.metrics.ms_v_bat_voltage =
            IF value # 65534 THEN value * 25 ELSE d.m_bat_pack_voltage ]

\* The power left with the sign of voltage * current.
Current_positive(d, value) ==
    LET current == value - 40000
        power == d.metrics.ms_v_bat_voltage * current
    IN  [ d EXCEPT
            !.metrics.ms_v_bat_current = current,
            !.metrics.ms_v_bat_power = power ]

\* case batteryCurrentPid
Current(d, value) ==
    LET current == value - 40000
        power == -(d.metrics.ms_v_bat_voltage * current)
    IN  [ d EXCEPT
            !.metrics.ms_v_bat_current = current,
            !.metrics.ms_v_bat_power = power ]

\* case batteryVoltagePid
PackVoltage(d, value) == [ d EXCEPT !.m_bat_pack_voltage = value * 25 ]

\* The done threshold taken for the top-off threshold.
BelowTopOff_done(scaledSoc) == scaledSoc < 97 * SocUnit

\* scaledSoc < 99.5
BelowTopOff(scaledSoc) == scaledSoc < 199 * (SocUnit \div 2)
\* The charge state written whether or not a charge is in progress.
SoC_always(d, value, cfg) ==
    LET scaledSoc == calculateSoc(value, cfg)
        M == d.metrics
    IN  [ d EXCEPT
            !.m_soc_raw = value * 10,
            !.metrics =
                [ M EXCEPT
                    !.ms_v_charge_state =
                        IF BelowTopOff(scaledSoc) THEN "charging" ELSE "topoff",
                    !.ms_v_bat_soc = scaledSoc,
                    !.ms_v_bat_range_ideal = 131 * (scaledSoc \div 100) ] ]

\* The charge ended by the SOC frame that reaches top-off.
SoC_finish(d, value, cfg) ==
    LET scaledSoc == calculateSoc(value, cfg)
        M == d.metrics
    IN  [ d EXCEPT
            !.m_soc_raw = value * 10,
            !.metrics =
                [ M EXCEPT
                    !.ms_v_charge_state =
                        IF M.ms_v_charge_inprogress
                        THEN IF BelowTopOff(scaledSoc)
                             THEN "charging" ELSE "topoff"
                        ELSE @,
                    !.ms_v_charge_inprogress = @ /\ BelowTopOff(scaledSoc),
                    !.ms_v_bat_soc = scaledSoc,
                    !.ms_v_bat_range_ideal = 131 * (scaledSoc \div 100) ] ]


\* case batterySoCPid
SoC(d, value, cfg) ==
    LET scaledSoc == calculateSoc(value, cfg)
        M == d.metrics
    IN  [ d EXCEPT
            !.m_soc_raw = value * 10,
            !.metrics =
                [ M EXCEPT
                    !.ms_v_charge_state =
                        IF M.ms_v_charge_inprogress
                        THEN IF BelowTopOff(scaledSoc)
                             THEN "charging" ELSE "topoff"
                        ELSE @,
                    !.ms_v_bat_soc = scaledSoc,
                    !.ms_v_bat_range_ideal = 131 * (scaledSoc \div 100) ] ]

\* A default case that treats the frame as the first frame of a block.
UnknownPid_cache(d, data) == [ d EXCEPT !.m_bmsCache = Byte(data, 2) ]

\* The switch has no default case: a PID that is no case falls through.
UnknownPid(d, data) == d

\* ---------------------------------------------------------- IncomingBmsPoll
IncomingBmsPoll(d, pid, data, remain, cfg) ==
    LET value == u16(Byte(data, 0), Byte(data, 1)) IN
    CASE \E k \in 1 .. Len(cellStatPids) : pid = cellStatPids[k] ->
            ProcessBatteryStats(
                d, (CHOOSE k \in 1 .. Len(cellStatPids) : pid = cellStatPids[k]) - 1,
                data, remain)
      [] pid = "batteryBusVoltagePid" -> BusVoltage(d, value)
      [] pid = "batteryCurrentPid" -> Current(d, value)
      [] pid = "batteryVoltagePid" -> PackVoltage(d, value)
      [] pid = "batterySoCPid" -> SoC(d, value, cfg)
      [] pid = "bmsStatusPid" ->
            [ d EXCEPT !.metrics = SetBmsStatus(d.metrics, Byte(data, 0)) ]
      [] pid = "batteryCoolantTempPid" ->
            [ d EXCEPT !.metrics.ms_v_bat_temp = Byte(data, 0) - 80 ]
      [] pid = "batterySoHPid" ->
            [ d EXCEPT !.metrics.ms_v_bat_soh = value ]
      [] pid = "bmsRangePid" ->
            [ d EXCEPT !.metrics.ms_v_bat_range_est = value * 10 ]
      [] OTHER -> UnknownPid(d, data)

\* ------------------------------------------------------------- the actions
\* The decoder object of this run, with the store.
Decoder ==
    [ metrics |-> StandardMetrics,
      m_bmsCache |-> m_bmsCache,
      m_bat_pack_voltage |-> m_bat_pack_voltage,
      m_soc_raw |-> m_soc_raw ]

\* The transport calls IncomingBmsPoll(pid, data, length, remain) once.
Dispatch(pid, data, remain) ==
    /\ budget' = budget - 1
    /\ LET d == IncomingBmsPoll(Decoder, pid, data, remain, updatedbmu) IN
        /\ StandardMetrics' = d.metrics
        /\ m_bmsCache' = d.m_bmsCache
        /\ m_bat_pack_voltage' = d.m_bat_pack_voltage
        /\ m_soc_raw' = d.m_soc_raw
    /\ last' = [ pid |-> pid, data |-> data, remain |-> remain ]
    /\ lastStatus' = IF pid = "bmsStatusPid" THEN Byte(data, 0) ELSE lastStatus
    /\ repeated' = (last = [ pid |-> pid, data |-> data, remain |-> remain ])
    /\ lastMin' =
        IF remain # 0 /\ \E k \in 1 .. Len(cellStatPids) : pid = cellStatPids[k]
        THEN [ pid |-> pid, data |-> data, remain |-> remain ]
        ELSE lastMin
    /\ UNCHANGED << updatedbmu, twin >>

CellStatFrame ==
    \E index \in CellIndexes, data \in CellData, remain \in RemainSamples :
        /\ budget > 0
        /\ Dispatch(cellStatPids[index + 1], data, remain)

BusVoltageFrame ==
    \E raw \in BusVoltageRaw :
        /\ budget > 0
        /\ Dispatch("batteryBusVoltagePid", BE16(raw), 0)

CurrentFrame ==
    \E raw \in CurrentRaw :
        /\ budget > 0
        /\ Dispatch("batteryCurrentPid", BE16(raw), 0)

PackVoltageFrame ==
    \E raw \in PackVoltageRaw :
        /\ budget > 0
        /\ Dispatch("batteryVoltagePid", BE16(raw), 0)

SocFrame ==
    \E raw \in SocRaw :
        /\ budget > 0
        /\ Dispatch("batterySoCPid", BE16(raw), 0)

SocEdgeFrame ==
    \E raw \in SocEdgeRaw :
        /\ budget > 0
        /\ Dispatch("batterySoCPid", BE16(raw), 0)

BmsStatusFrame ==
    \E status \in StatusSamples :
        /\ budget > 0
        /\ Dispatch("bmsStatusPid", << status, 0, 0 >>, 0)

CoolantTempFrame ==
    \E raw \in CoolantRaw :
        /\ budget > 0
        /\ Dispatch("batteryCoolantTempPid", << raw, 0, 0 >>, 0)

SohFrame ==
    \E raw \in SohRaw :
        /\ budget > 0
        /\ Dispatch("batterySoHPid", BE16(raw), 0)

RangeFrame ==
    \E raw \in RangeRaw :
        /\ budget > 0
        /\ Dispatch("bmsRangePid", BE16(raw), 0)

UnknownFrame ==
    \E data \in CellData, remain \in RemainSamples :
        /\ budget > 0
        /\ Dispatch(otherPid, data, remain)

\* The second decoder receives a BMS status frame or an SOC frame.
TwinDispatch(pid, data) ==
    /\ twin' =
        [ decoder |-> IncomingBmsPoll(twin.decoder, pid, data, 0, updatedbmu),
          lastStatus |->
            IF pid = "bmsStatusPid" THEN Byte(data, 0) ELSE twin.lastStatus,
          budget |-> twin.budget - 1 ]
    /\ UNCHANGED << StandardMetrics, m_bmsCache, m_bat_pack_voltage, m_soc_raw,
                    updatedbmu, last, lastStatus, repeated, lastMin, budget >>

TwinBmsStatusFrame ==
    \E status \in StatusSamples :
        /\ twin.budget > 0
        /\ TwinDispatch("bmsStatusPid", << status, 0, 0 >>)

TwinSocFrame ==
    \E raw \in SocRaw :
        /\ twin.budget > 0
        /\ TwinDispatch("batterySoCPid", BE16(raw))

\* ------------------------------------------------------ the specifications
InitWith(frames) ==
    /\ StandardMetrics = InitialDecoder.metrics
    /\ m_bmsCache = InitialDecoder.m_bmsCache
    /\ m_bat_pack_voltage = InitialDecoder.m_bat_pack_voltage
    /\ m_soc_raw = InitialDecoder.m_soc_raw
    /\ updatedbmu \in BOOLEAN
    /\ last = NoFrame
    /\ lastStatus = NoStatus
    /\ repeated = FALSE
    /\ lastMin = NoFrame
    /\ budget = frames
    /\ twin =
        [ decoder |-> InitialDecoder,
          lastStatus |-> NoStatus,
          budget |-> MaxTwinFrames ]

\* The full decoder.
Init == InitWith(MaxFrames)

Next ==
    \/ CellStatFrame
    \/ BusVoltageFrame
    \/ CurrentFrame
    \/ PackVoltageFrame
    \/ SocFrame
    \/ BmsStatusFrame
    \/ CoolantTempFrame
    \/ SohFrame
    \/ RangeFrame
    \/ UnknownFrame

Spec == Init /\ [][Next]_vars

\* The block-stat PIDs alone, in longer runs.
InitCells == InitWith(MaxCellFrames)

NextCells == CellStatFrame \/ UnknownFrame

SpecCells == InitCells /\ [][NextCells]_vars

\* The PIDs the charge state machine reads, in longer runs.
InitCharge == InitWith(MaxChargeFrames)

NextCharge ==
    \/ BusVoltageFrame
    \/ CurrentFrame
    \/ PackVoltageFrame
    \/ SocFrame
    \/ BmsStatusFrame

SpecCharge == InitCharge /\ [][NextCharge]_vars

\* SOC frames at the edges of the windows, with the status frames that decide
\* whether the SOC frame writes the charge state.
InitSoc == InitWith(MaxSocFrames)

NextSoc == SocEdgeFrame \/ BmsStatusFrame

SpecSoc == InitSoc /\ [][NextSoc]_vars

\* Two decoders under the same configuration, each fed its own sequence of
\* BMS status and SOC frames.
NextTwin ==
    \/ SocFrame
    \/ BmsStatusFrame
    \/ TwinSocFrame
    \/ TwinBmsStatusFrame

InitTwin == InitWith(MaxTwinFrames)

SpecTwin == InitTwin /\ [][NextTwin]_vars

\* ------------------------------------------------------------- the claims
\* This step dispatches one frame to the decoder (last' is that frame).
Dispatched == budget' = budget - 1

\* C1: for every block index 0..8, when a min-frame (remain # 0) for the index
\* is followed at once by the max-frame (remain = 0) for the same index, the
\* cell values stored for the index are
\*   vmin = ((min.data[0] << 8) | min.data[1]) / 2000 + 1.0,
\*   vmax = ((min.data[2] << 8) | max.data[0]) / 2000 + 1.0,
\*   tmin = max.data[1] * 0.5 - 40,  tmax = max.data[2] * 0.5 - 40
\* (voltages in 1/2000 V, temperatures in half degrees).
C1_BlockPairDecoded ==
    [][ \A k \in 0 .. 8 :
          ( /\ Dispatched
            /\ last.pid = cellStatPids[k + 1] /\ last.remain # 0
            /\ last'.pid = cellStatPids[k + 1] /\ last'.remain = 0 )
          => LET mn == last.data
                 mx == last'.data
                 M == StandardMetrics'
             IN  /\ M.ms_v_bat_cell_vmin[k] = (mn[1] * 256 + mn[2]) + 2000
                 /\ M.ms_v_bat_cell_vmax[k] = (mn[3] * 256 + mx[1]) + 2000
                 /\ M.ms_v_bat_cell_tmin[k] = mx[2] - 80
                 /\ M.ms_v_bat_cell_tmax[k] = mx[3] - 80 ]_vars

\* Two frames were dispatched, the min-frame << 11, 184, 12 >> and then the
\* max-frame << 12, 28, 11 >> of block 1: 2.5 V, 2.542 V, -26 and -34.5 degC.
C1_Witness ==
    /\ budget = MaxCellFrames - 2
    /\ last = [ pid |-> "cell2StatPid", data |-> << 12, 28, 11 >>, remain |-> 0 ]
    /\ DOMAIN StandardMetrics.ms_v_bat_cell_vmin = { 1 }
    /\ StandardMetrics.ms_v_bat_cell_vmin[1] = 5000
    /\ StandardMetrics.ms_v_bat_cell_vmax[1] = 5084
    /\ StandardMetrics.ms_v_bat_cell_tmin[1] = -52
    /\ StandardMetrics.ms_v_bat_cell_tmax[1] = -69

\* x is a value held by vec and no value of vec is below (above) it.
IsLeast(x, vec) ==
    /\ \E i \in DOMAIN vec : vec[i] = x
    /\ \A i \in DOMAIN vec : x <= vec[i]

IsMost(x, vec) ==
    /\ \E i \in DOMAIN vec : vec[i] = x
    /\ \A i \in DOMAIN vec : x >= vec[i]

\* C2: after any sequence of frames, whatever block indices are populated
\* and in whatever order, pack vmin is the minimum of the cell vmin values
\* of the populated indices, pack vmax the maximum of their cell vmax
\* values, pack tmin the minimum of their cell tmin values and pack tmax the
\* maximum of their cell tmax values.
C2_PackExtremes ==
    LET M == StandardMetrics IN
    /\ DOMAIN M.ms_v_bat_cell_vmin # {}
        => IsLeast(M.ms_v_bat_pack_vmin, M.ms_v_bat_cell_vmin)
    /\ DOMAIN M.ms_v_bat_cell_vmax # {}
        => IsMost(M.ms_v_bat_pack_vmax, M.ms_v_bat_cell_vmax)
    /\ DOMAIN M.ms_v_bat_cell_tmin # {}
        => IsLeast(M.ms_v_bat_pack_tmin, M.ms_v_bat_cell_tmin)
    /\ DOMAIN M.ms_v_bat_cell_tmax # {}
        => IsMost(M.ms_v_bat_pack_tmax, M.ms_v_bat_cell_tmax)

\* Block 1 was populated before block 0, the extremes differ between the
\* blocks, and the pack minimum is not the value of the block written last.
C2_Witness ==
    LET M == StandardMetrics IN
    /\ last.pid = "cell1StatPid" /\ last.remain # 0
    /\ DOMAIN M.ms_v_bat_cell_vmin = { 0, 1 }
    /\ DOMAIN M.ms_v_bat_cell_vmax = { 1 }
    /\ M.ms_v_bat_cell_vmin[1] < M.ms_v_bat_cell_vmin[0]
    /\ M.ms_v_bat_pack_vmin = M.ms_v_bat_cell_vmin[1]

\* The status codes that start or continue a charge.
ChargingCodes == { StartingCharge, Charging, CcsCharging }

\* This step dispatches a BMS status frame; StatusCode' is its code.
StatusStep == Dispatched /\ last'.pid = "bmsStatusPid"

StatusCode == Byte(last.data, 0)

\* The fields of the store other than those named are as before the step.
OnlyWrites(fields) ==
    \A f \in (DOMAIN StandardMetrics) \ fields :
        StandardMetrics'[f] = StandardMetrics[f]

\* C3: a BMS status frame with a code other than 0x6, 0x7 or 0xC, dispatched
\* while charge in-progress is true, sets the charge type to "not charging",
\* in-progress to false, and the charge state to "done" when the stored
\* scaled SOC is at least 97.0 and to "stopped" otherwise.
C3_EndOfCharge ==
    [][ ( /\ StatusStep
          /\ StatusCode' \notin ChargingCodes
          /\ StandardMetrics.ms_v_charge_inprogress )
          => /\ StandardMetrics'.ms_v_charge_type = "not charging"
             /\ StandardMetrics'.ms_v_charge_inprogress = FALSE
             /\ StandardMetrics'.ms_v_charge_state =
                    IF StandardMetrics.ms_v_bat_soc >= 97 * SocUnit
                    THEN "done" ELSE "stopped" ]_vars

\* An Idle status frame ended a charge at an SOC between 97 % and 99.5 %.
C3_Witness ==
    /\ last.pid = "bmsStatusPid" /\ Byte(last.data, 0) = Idle
    /\ StandardMetrics.ms_v_charge_type = "not charging"
    /\ StandardMetrics.ms_v_charge_state = "done"
    /\ StandardMetrics.ms_v_charge_inprogress = FALSE
    /\ StandardMetrics.ms_v_bat_soc >= 97 * SocUnit
    /\ 2 * StandardMetrics.ms_v_bat_soc < 199 * SocUnit

\* C4: a BMS status frame with code 0x7 (CcsCharging), from any prior state,
\* sets in-progress to true, the charge type to "ccs", the charge current to
\* the negation of the battery current, the charge power to the battery
\* power, the charge voltage to the battery voltage and the charge current
\* limit to 82, and leaves the charge state as it was.
C4_CcsCharging ==
    [][ ( StatusStep /\ StatusCode' = CcsCharging )
        => LET M == StandardMetrics
               N == StandardMetrics'
           IN  /\ N.ms_v_charge_inprogress = TRUE
               /\ N.ms_v_charge_type = "ccs"
               /\ N.ms_v_charge_current + M.ms_v_bat_current = 0
               /\ N.ms_v_charge_power = M.ms_v_bat_power
               /\ N.ms_v_charge_voltage = M.ms_v_bat_voltage
               /\ N.ms_v_charge_climit = 82
               /\ N.ms_v_charge_state = M.ms_v_charge_state ]_vars

\* A CCS status frame arrived with 400 V on the bus and 25 A flowing into
\* the battery (10 kW).
C4_Witness ==
    /\ last.pid = "bmsStatusPid" /\ Byte(last.data, 0) = CcsCharging
    /\ StandardMetrics.ms_v_bat_current = -1000
    /\ StandardMetrics.ms_v_charge_current = 1000
    /\ StandardMetrics.ms_v_charge_voltage = 40000
    /\ StandardMetrics.ms_v_charge_power = 40000000
    /\ StandardMetrics.ms_v_charge_climit = 82
    /\ StandardMetrics.ms_v_charge_type = "ccs"

\* This step dispatches an SOC frame.
SocStep == Dispatched /\ last'.pid = "batterySoCPid"

\* The scaled SOC of the frame dispatched last, an SOC frame, in 1/SocUnit %.
FrameSoc ==
    LET raw == Byte(last.data, 0) * 256 + Byte(last.data, 1)
        lower == IF updatedbmu THEN 25 ELSE 60
        upper == IF updatedbmu THEN 940 ELSE 970
    IN  (raw - lower) * 100 * (SocUnit \div (upper - lower))

\* C5: the charge state becomes "charging" or "topoff" only in a step that
\* dispatches an SOC frame while in-progress is true; every SOC frame
\* dispatched while in-progress is true sets the charge state to "charging"
\* when the scaled SOC of that frame is below 99.5 and to "topoff" otherwise,
\* whatever the last status code was; an SOC frame dispatched while
\* in-progress is false leaves the charge state as it was.
C5_ChargingTopoff ==
    [][ LET M == StandardMetrics
            N == StandardMetrics'
        IN  /\ ( /\ N.ms_v_charge_state \in { "charging", "topoff" }
                 /\ N.ms_v_charge_state # M.ms_v_charge_state )
                => ( SocStep /\ M.ms_v_charge_inprogress )
            /\ ( SocStep /\ M.ms_v_charge_inprogress )
                => N.ms_v_charge_state =
                    IF 2 * FrameSoc' < 199 * SocUnit
                    THEN "charging" ELSE "topoff"
            /\ ( SocStep /\ ~M.ms_v_charge_inprogress )
                => N.ms_v_charge_state = M.ms_v_charge_state ]_vars

\* An SOC frame between 97 % and 99.5 % arrived during a charge.
C5_Witness ==
    /\ last.pid = "batterySoCPid"
    /\ StandardMetrics.ms_v_charge_inprogress
    /\ StandardMetrics.ms_v_charge_state = "charging"
    /\ StandardMetrics.ms_v_bat_soc >= 97 * SocUnit

\* Both decoders have received a BMS status frame, the most recent ones carry
\* the same status byte, and both hold the same SOC.
SameStatusAndSoc ==
    /\ lastStatus # NoStatus
    /\ twin.lastStatus = lastStatus
    /\ twin.decoder.metrics.ms_v_bat_soc = StandardMetrics.ms_v_bat_soc

\* C6 as claimed: two frame sequences that end with the same most recent
\* status byte and the same SOC leave the same in-progress flag, charge type
\* and charge state.
C6_RecoverableFromStatusAndSoc ==
    SameStatusAndSoc
    => LET M == StandardMetrics
           T == twin.decoder.metrics
       IN  /\ T.ms_v_charge_inprogress = M.ms_v_charge_inprogress
           /\ T.ms_v_charge_type = M.ms_v_charge_type
           /\ T.ms_v_charge_state = M.ms_v_charge_state

\* C6, amended: two frame sequences that end with the same most recent
\* status byte and the same SOC leave the same in-progress flag (true exactly
\* for 0x6, 0x7 and 0xC) and, when a charge is in progress, the same charge
\* type; the charge type outside a charge and the charge state depend on
\* earlier frames.
C6_InProgressRecoverable ==
    SameStatusAndSoc
    => LET M == StandardMetrics
           T == twin.decoder.metrics
       IN  /\ T.ms_v_charge_inprogress = M.ms_v_charge_inprogress
           /\ M.ms_v_charge_inprogress <=> lastStatus \in ChargingCodes
           /\ M.ms_v_charge_inprogress
                => T.ms_v_charge_type = M.ms_v_charge_type

\* Both decoders received Idle last and hold the same SOC; one had a charge
\* in progress before and the other had not, and they differ in charge type
\* and charge state.
C6_Witness ==
    /\ SameStatusAndSoc
    /\ lastStatus = Idle
    /\ StandardMetrics.ms_v_charge_type = ""
    /\ twin.decoder.metrics.ms_v_charge_type = "not charging"
    /\ twin.decoder.metrics.ms_v_charge_state = "done"

\* C7: a BMS status frame with a code other than 0x6, 0x7 or 0xC dispatched
\* while in-progress is false changes nothing: in-progress, charge type,
\* charge state, the charge electrical metrics, the battery metrics and the
\* cross-frame cache are as before.
C7_IdleNoOp ==
    [][ ( /\ StatusStep
          /\ StatusCode' \notin ChargingCodes
          /\ ~StandardMetrics.ms_v_charge_inprogress )
          => /\ StandardMetrics' = StandardMetrics
             /\ UNCHANGED << m_bmsCache, m_bat_pack_voltage, m_soc_raw >> ]_vars

\* An Idle status frame arrived with no charge in progress and none ended
\* before (the type is not "not charging"), after a block min-frame and a
\* bus-voltage frame.
C7_Witness ==
    /\ last.pid = "bmsStatusPid" /\ Byte(last.data, 0) = Idle
    /\ StandardMetrics.ms_v_charge_inprogress = FALSE
    /\ StandardMetrics.ms_v_charge_type = ""
    /\ StandardMetrics.ms_v_bat_voltage = 40000
    /\ m_bmsCache = 12

\* C8: a BMS status frame with code 0xC (StartingCharge) or 0x6 (Charging)
\* sets in-progress to true and the charge type to "type2" and leaves the
\* charge state and the charge current, power, voltage and current limit as
\* they were.
C8_Type2Charging ==
    [][ ( StatusStep /\ StatusCode' \in { StartingCharge, Charging } )
          => /\ StandardMetrics'.ms_v_charge_inprogress = TRUE
             /\ StandardMetrics'.ms_v_charge_type = "type2"
             /\ OnlyWrites({ "ms_v_charge_inprogress", "ms_v_charge_type" }) ]_vars

\* A StartingCharge status frame arrived after a charge had stopped: the
\* state is still "stopped".
C8_Witness ==
    /\ last.pid = "bmsStatusPid" /\ Byte(last.data, 0) = StartingCharge
    /\ StandardMetrics.ms_v_charge_inprogress
    /\ StandardMetrics.ms_v_charge_type = "type2"
    /\ StandardMetrics.ms_v_charge_state = "stopped"

\* C9: a bus-voltage frame whose 16-bit big-endian raw value is 0xFFFE sets
\* bat_voltage to the value the pack-voltage metric holds, not to
\* 0xFFFE * 0.25; for every other raw value it sets bat_voltage to
\* raw * 0.25 (raw * 25 hundredths of a volt). The pack-voltage metric is
\* unchanged in both cases.
C9_BusOffSubstitution ==
    [][ ( Dispatched /\ last'.pid = "batteryBusVoltagePid" )
        => LET raw == Byte(last'.data, 0) * 256 + Byte(last'.data, 1) IN
           /\ StandardMetrics'.ms_v_bat_voltage =
                IF raw = 65534 THEN m_bat_pack_voltage ELSE raw * 25
           /\ m_bat_pack_voltage' = m_bat_pack_voltage ]_vars

\* A bus-off frame arrived after a pack-voltage frame of 395 V.
C9_Witness ==
    /\ last.pid = "batteryBusVoltagePid" /\ last.data = << 255, 254, 0 >>
    /\ m_bat_pack_voltage = 39500
    /\ StandardMetrics.ms_v_bat_voltage = 39500

\* C10: a frame whose PID is none of the 9 block-stat PIDs nor one of the 8
\* scalar PIDs changes nothing: no metric is written and the cross-frame
\* cache keeps its value, whatever the payload and the remaining bytes.
C10_UnknownPidIgnored ==
    [][ ( Dispatched /\ last'.pid = otherPid )
        => /\ StandardMetrics' = StandardMetrics
           /\ UNCHANGED << m_bmsCache, m_bat_pack_voltage, m_soc_raw >> ]_vars

\* An unknown PID arrived with a nonzero remain and a payload whose third
\* byte differs from the cache a block min-frame had filled.
C10_Witness ==
    /\ last.pid = otherPid /\ last.remain # 0
    /\ m_bmsCache = 12
    /\ Byte(last.data, 2) # 12
    /\ DOMAIN StandardMetrics.ms_v_bat_cell_vmin # {}

\* f is a block-stat frame.
IsCellFrame(f) == \E k \in 1 .. Len(cellStatPids) : f.pid = cellStatPids[k]

\* The block index of the block-stat frame f.
CellIndexOf(f) == (CHOOSE k \in 1 .. Len(cellStatPids) : f.pid = cellStatPids[k]) - 1

\* C11: dispatching an identical max-frame (same block index, same bytes,
\* remain = 0) twice in a row gives the same decoded output both times: the
\* second dispatch leaves cell vmax/tmin/tmax, pack vmax/tmin/tmax and the
\* cross-frame cache as the first left them.
C11_MaxFrameIdempotent ==
    [][ ( /\ Dispatched
          /\ IsCellFrame(last) /\ last.remain = 0
          /\ last' = last )
        => LET M == StandardMetrics
               N == StandardMetrics'
           IN  /\ N.ms_v_bat_cell_vmax = M.ms_v_bat_cell_vmax
               /\ N.ms_v_bat_cell_tmin = M.ms_v_bat_cell_tmin
               /\ N.ms_v_bat_cell_tmax = M.ms_v_bat_cell_tmax
               /\ N.ms_v_bat_pack_vmax = M.ms_v_bat_pack_vmax
               /\ N.ms_v_bat_pack_tmin = M.ms_v_bat_pack_tmin
               /\ N.ms_v_bat_pack_tmax = M.ms_v_bat_pack_tmax
               /\ m_bmsCache' = m_bmsCache ]_vars

\* The max-frame << 11, 184, 12 >> of block 0 was dispatched twice in a row
\* after a min-frame had put 12 in the cache: vmax is 2.5415 V both times.
C11_Witness ==
    /\ repeated
    /\ last = [ pid |-> "cell1StatPid", data |-> << 11, 184, 12 >>, remain |-> 0 ]
    /\ m_bmsCache = 12
    /\ StandardMetrics.ms_v_bat_cell_vmax[0] = 12 * 256 + 11 + 2000
    /\ StandardMetrics.ms_v_bat_pack_vmax = 12 * 256 + 11 + 2000

\* C12: for every 16-bit raw value a current frame sets
\* bat_current = ((raw - 40000) * 0.25) / 10 as a signed quantity (raw below
\* 40000 gives a negative current, no unsigned wrap-around) and
\* bat_power = -(bat_voltage * bat_current) / 1000 with the bat_voltage held
\* at that moment; raw = 40000 gives current 0 and power 0 for every voltage
\* (current in 1/40 A, voltage in 1/100 V, power in 1/4000000 kW).
C12_CurrentAndPower ==
    [][ ( Dispatched /\ last'.pid = "batteryCurrentPid" )
        => LET raw == Byte(last'.data, 0) * 256 + Byte(last'.data, 1)
               M == StandardMetrics
               N == StandardMetrics'
           IN  /\ N.ms_v_bat_current = raw - 40000
               /\ raw < 40000 => N.ms_v_bat_current < 0
               /\ N.ms_v_bat_voltage = M.ms_v_bat_voltage
               /\ N.ms_v_bat_power + M.ms_v_bat_voltage * (raw - 40000) = 0
               /\ raw = 40000
                    => N.ms_v_bat_current = 0 /\ N.ms_v_bat_power = 0 ]_vars

\* A current frame of raw 39000 (-25 A) arrived with 400 V on the bus: 10 kW.
C12_Witness ==
    /\ last.pid = "batteryCurrentPid" /\ last.data = BE16(39000)
    /\ StandardMetrics.ms_v_bat_voltage = 40000
    /\ StandardMetrics.ms_v_bat_current = -1000
    /\ StandardMetrics.ms_v_bat_power = 40000000

\* A current frame of raw 40000 arrived with 400 V on the bus after a
\* nonzero current.
C12_WitnessZero ==
    /\ last.pid = "batteryCurrentPid" /\ last.data = BE16(40000)
    /\ StandardMetrics.ms_v_bat_voltage = 40000
    /\ StandardMetrics.ms_v_bat_power = 0

\* C13: for every 16-bit raw value the scaled SOC is
\* (raw - lower) * 100 / (upper - lower), with (lower, upper) = (25, 940)
\* when "updatedbmu" is enabled and (60, 970) when it is disabled, and is not
\* clamped: raw = lower gives 0, raw = upper gives 100, raw below lower a
\* negative percentage and raw above upper a percentage above 100 (the
\* scaled SOC an SOC frame stores, in 1/SocUnit percent).
C13_ScaleSoc ==
    [][ SocStep
        => LET raw == Byte(last'.data, 0) * 256 + Byte(last'.data, 1)
               lower == IF updatedbmu THEN 25 ELSE 60
               upper == IF updatedbmu THEN 940 ELSE 970
               soc == StandardMetrics'.ms_v_bat_soc
           IN  /\ soc = ((raw - lower) * 100) * (SocUnit \div (upper - lower))
               /\ raw = lower => soc = 0
               /\ raw = upper => soc = 100 * SocUnit
               /\ raw < lower => soc < 0
               /\ raw > upper => soc > 100 * SocUnit
               /\ ( raw > lower /\ raw < upper )
                    => ( soc > 0 /\ soc < 100 * SocUnit ) ]_vars

\* An SOC frame of raw 24 arrived with the new window: one raw step below 0 %.
C13_Witness ==
    /\ last.pid = "batterySoCPid" /\ last.data = BE16(24)
    /\ updatedbmu
    /\ StandardMetrics.ms_v_bat_soc = -100 * (SocUnit \div 915)

\* An SOC frame of raw 65535 arrived with the old window: above 100 %.
C13_WitnessAbove ==
    /\ last.pid = "batterySoCPid" /\ last.data = BE16(65535)
    /\ ~updatedbmu
    /\ StandardMetrics.ms_v_bat_soc > 7000 * SocUnit

\* C14: the cross-frame cache is written only by block-stat min-frames
\* (remain # 0), each of which overwrites it with data[2]; a max-frame and
\* every other PID leave it as it was. So the vmax a max-frame writes for its
\* block index is ((data[2] of the most recently dispatched min-frame of any
\* block index) << 8 | max.data[0]) / 2000 + 1.0, also when that min-frame
\* was for a different index (once a min-frame has been dispatched).
C14_CacheAndMaxVoltage ==
    [][ Dispatched
        => LET f == last'
               isMin == IsCellFrame(f) /\ f.remain # 0
               isMax == IsCellFrame(f) /\ f.remain = 0
           IN  /\ isMin => m_bmsCache' = Byte(f.data, 2)
               /\ ~isMin => m_bmsCache' = m_bmsCache
               /\ ( isMax /\ lastMin # NoFrame )
                    => StandardMetrics'.ms_v_bat_cell_vmax[CellIndexOf(f)]
                        = ( Byte(lastMin.data, 2) * 256 + Byte(f.data, 0) ) + 2000 ]_vars

\* A max-frame of block 0 arrived when the only min-frame so far was one of
\* block 1: the vmax of block 0 has the cached byte of that frame on top.
C14_Witness ==
    /\ last = [ pid |-> "cell1StatPid", data |-> << 12, 28, 11 >>, remain |-> 0 ]
    /\ lastMin # NoFrame
    /\ lastMin.pid = "cell2StatPid" /\ lastMin.data = << 11, 184, 12 >>
    /\ DOMAIN StandardMetrics.ms_v_bat_cell_vmin = { 1 }
    /\ StandardMetrics.ms_v_bat_cell_vmax[0] = ( 12 * 256 + 12 ) + 2000
    /\ m_bmsCache = 12

\* The values vec held at the indices other than k are in vec' as they were.
OthersKept(field, k) ==
    LET old == StandardMetrics[field]
        new == StandardMetrics'[field]
    IN  \A i \in (DOMAIN old) \ { k } : i \in DOMAIN new /\ new[i] = old[i]

\* C15: a block-stat frame for index K changes cell values of index K only.
\* A min-frame writes only cell vmin[K], pack vmin and the cache, leaving
\* every cell vmax/tmin/tmax and pack vmax/tmin/tmax unchanged; a max-frame
\* writes only cell vmax[K], tmin[K], tmax[K] and pack vmax/tmin/tmax,
\* leaving every cell vmin and pack vmin (and the cache) unchanged; neither
\* changes the cell values recorded for an index other than K, nor any scalar
\* battery or charge metric.
C15_BlockFrameEffect ==
    [][ ( Dispatched /\ IsCellFrame(last') )
        => LET k == CellIndexOf(last') IN
           /\ UNCHANGED << m_bat_pack_voltage, m_soc_raw >>
           /\ last'.remain # 0
                => /\ OnlyWrites({ "ms_v_bat_cell_vmin", "ms_v_bat_pack_vmin" })
                   /\ OthersKept("ms_v_bat_cell_vmin", k)
           /\ last'.remain = 0
                => /\ OnlyWrites({ "ms_v_bat_cell_vmax", "ms_v_bat_cell_tmin",
                                   "ms_v_bat_cell_tmax", "ms_v_bat_pack_vmax",
                                   "ms_v_bat_pack_tmin", "ms_v_bat_pack_tmax" })
                   /\ OthersKept("ms_v_bat_cell_vmax", k)
                   /\ OthersKept("ms_v_bat_cell_tmin", k)
                   /\ OthersKept("ms_v_bat_cell_tmax", k)
                   /\ m_bmsCache' = m_bmsCache ]_vars

\* A max-frame of block 1 arrived after both frames of block 0, with other
\* bytes: block 0 keeps its vmax, tmin and tmax, and block 1 has no vmin.
C15_Witness ==
    LET M == StandardMetrics IN
    /\ last.pid = "cell2StatPid" /\ last.remain = 0
    /\ DOMAIN M.ms_v_bat_cell_vmin = { 0 }
    /\ DOMAIN M.ms_v_bat_cell_vmax = { 0, 1 }
    /\ M.ms_v_bat_cell_vmax[0] # M.ms_v_bat_cell_vmax[1]
    /\ M.ms_v_bat_cell_tmin[0] # M.ms_v_bat_cell_tmin[1]
    /\ M.ms_v_bat_cell_tmax[0] # M.ms_v_bat_cell_tmax[1]
    /\ M.ms_v_bat_pack_vmin = M.ms_v_bat_cell_vmin[0]

\* C16: in every state reachable by any sequence of frames from an initial
\* state with in-progress false, charge in-progress true implies the charge
\* type is "type2" or "ccs", and charge type "not charging" implies
\* in-progress is false.
C16_TypeAndInProgress ==
    LET M == StandardMetrics IN
    /\ M.ms_v_charge_inprogress => M.ms_v_charge_type \in { "type2", "ccs" }
    /\ M.ms_v_charge_type = "not charging" => ~M.ms_v_charge_inprogress

\* A charge was ended below 97 % and an SOC frame followed: the type is "not
\* charging" and no charge is in progress.
C16_Witness ==
    /\ last.pid = "batterySoCPid"
    /\ lastStatus \notin ChargingCodes /\ lastStatus # NoStatus
    /\ StandardMetrics.ms_v_charge_type = "not charging"
    /\ StandardMetrics.ms_v_charge_state = "stopped"
    /\ ~StandardMetrics.ms_v_charge_inprogress

\* A CCS charge is in progress after a Type 2 charge was ended.
C16_WitnessCcs ==
    /\ last.pid = "bmsStatusPid" /\ lastStatus = CcsCharging
    /\ StandardMetrics.ms_v_charge_type = "ccs"
    /\ StandardMetrics.ms_v_charge_state \in { "done", "stopped" }
    /\ StandardMetrics.ms_v_charge_inprogress

\* C17: the in-progress flag and the charge type are changed only by BMS
\* status frames (never by an SOC frame or any other PID), and right after
\* any BMS status frame in-progress is true exactly when the status code is
\* 0x6, 0x7 or 0xC, whatever the prior state.
C17_InProgressFollowsStatus ==
    [][ Dispatched
        => LET M == StandardMetrics
               N == StandardMetrics'
           IN  /\ ~StatusStep
                    => /\ N.ms_v_charge_inprogress = M.ms_v_charge_inprogress
                       /\ N.ms_v_charge_type = M.ms_v_charge_type
               /\ StatusStep
                    => ( N.ms_v_charge_inprogress
                            <=> StatusCode' \in ChargingCodes ) ]_vars

\* An SOC frame brought a Type 2 charge to top-off: the charge is still in
\* progress and still of type "type2".
C17_Witness ==
    /\ last.pid = "batterySoCPid"
    /\ lastStatus \in { StartingCharge, Charging }
    /\ 2 * StandardMetrics.ms_v_bat_soc >= 199 * SocUnit
    /\ StandardMetrics.ms_v_charge_state = "topoff"
    /\ StandardMetrics.ms_v_charge_type = "type2"
    /\ StandardMetrics.ms_v_charge_inprogress

\* The charge state is "done" or "stopped".
Ended(M) == M.ms_v_charge_state \in { "done", "stopped" }

\* This step ends a charge: in-progress goes from true to false.
EndStep ==
    /\ StandardMetrics.ms_v_charge_inprogress
    /\ ~StandardMetrics'.ms_v_charge_inprogress

\* C18 as stated: the charge state becomes "done" or "stopped" only in a step
\* where in-progress goes from true to false, and once set it keeps that value
\* until an SOC frame is dispatched while in-progress is true again.
C18_KeptUntilSocInProgress ==
    [][ LET M == StandardMetrics
            N == StandardMetrics'
        IN  /\ ( Ended(N) /\ N.ms_v_charge_state # M.ms_v_charge_state )
                 => EndStep
            /\ ( Ended(M) /\ N.ms_v_charge_state # M.ms_v_charge_state )
                 => ( SocStep /\ M.ms_v_charge_inprogress ) ]_vars

\* C18: the charge state becomes "done" or "stopped" only in a step where
\* in-progress goes from true to false, and once set it keeps that value
\* until an SOC frame is dispatched while in-progress is true again, or until
\* a later charge is ended by a status frame, which sets it anew from the SOC
\* stored then; SOC frames received while not in progress and a charging
\* status frame by itself do not change it.
C18_KeptUntilSocOrNextEnd ==
    [][ LET M == StandardMetrics
            N == StandardMetrics'
        IN  /\ ( Ended(N) /\ N.ms_v_charge_state # M.ms_v_charge_state )
                 => EndStep
            /\ ( Ended(M) /\ N.ms_v_charge_state # M.ms_v_charge_state )
                 => \/ SocStep /\ M.ms_v_charge_inprogress
                    \/ StatusStep /\ EndStep ]_vars

\* A charge was stopped below 97 %, an SOC frame then raised the stored SOC
\* to 97 % or more, and a charging status frame followed: the state is still
\* "stopped", with a charge in progress again.
C18_Witness ==
    /\ last.pid = "bmsStatusPid" /\ lastStatus = Charging
    /\ StandardMetrics.ms_v_charge_inprogress
    /\ StandardMetrics.ms_v_charge_state = "stopped"
    /\ StandardMetrics.ms_v_bat_soc >= 97 * SocUnit

====
